---- MODULE Spec2Model ----
(***************************************************************************)
(* A model of the waveform renderer (ECGVisualizer), the periodic-timer    *)
(* hook (useInterval) and the signal synthesizer (generateECGData) of      *)
(* src/main.tsx.                                                           *)
(*                                                                         *)
(* React is modelled at the granularity of one event-loop task: a user     *)
(* event or a host timer callback runs its handler, the component          *)
(* re-renders and its effects run, all in one action.                      *)
(***************************************************************************)
EXTENDS Integers, Sequences, FiniteSets

VARIABLES
  mounted,        \* whether the ECGVisualizer instance is mounted
  data,           \* ECGVisualizer's data prop: a sequence of samples
  isPlaying,      \* useState(false)
  offset,         \* useState(0)
  canvas,         \* what the last redraw put on the drawing surface
  surface,        \* whether canvasRef.current and its 2-D context exist; history of skipped redraws
  patientCases,   \* PATIENT_CASES: the ecgPattern array of each entry
  selectedPatient, \* the dashboard's selectedPatient, as an index of PATIENT_CASES (none outside the dashboard)
  lastEvent,      \* history: the handler that ran last
  scenario,       \* history: ticks of uninterrupted playback since the initial state, and the sample indices shown
  pauseMark,      \* history: the offset at the last pause, until the first tick after resuming
  savedCallback,  \* useInterval: savedCallback.current
  intervalEffect, \* useInterval: the [delay] effect's last deps and its cleanup
  hostIntervals,  \* the host's registered intervals (setInterval minus clearInterval)
  props,          \* a component that calls useInterval(callback, delay): its props
  invoked,        \* history: the callbacks the host interval has invoked, in order
  stopped,        \* history: time elapsed and invocations made since useInterval went inactive
  intervalLog,    \* history: the most intervals registered at one instant, and the delay changes made
  synth,          \* the last call of generateECGData: its argument and what it returned
  isRealTimeEnabled, \* ECGLVSDProjectGenerator: useState(false)
  predictionResult,  \* ECGLVSDProjectGenerator: useState(null), or { lvef, confidence }
  predictionLog,  \* history: time since real-time prediction was last enabled, and whether it ever was
  debounceProps,  \* a component that calls useDebounce(value, delay): the two arguments
  debouncedValue, \* useDebounce: useState(value)
  debounceEffect, \* useDebounce: the handler of the pending setTimeout, if any
  hostTimeouts,   \* the host's pending timeouts (setTimeout minus clearTimeout and fired ones)
  debounceLog,    \* history: how long the input has been unchanged; counts of changes, emissions and cancelled timeouts
  storage,        \* window.localStorage as one key sees it: whether access throws, and the entry
  lsHook,         \* a component that calls useLocalStorage(key, initialValue): its storedValue
  lsEvent,        \* history: what happened last to the useLocalStorage caller or to the storage
  dashboard,      \* ECGLVSDProjectGenerator: whether it is mounted, and which instance it is
  trainingProgress, \* ECGLVSDProjectGenerator: useState(0)
  isTraining,     \* ECGLVSDProjectGenerator: useState(false)
  notification,   \* ECGLVSDProjectGenerator: notificationMessage and showNotification
  trainingHandles, \* the interval handles that calls of startTraining hold, with the instance that made the call
  trainingLog     \* history: the last event, runs started, ticks and completion notifications of the latest run

vars     == <<mounted, data, isPlaying, offset, canvas, surface, patientCases, selectedPatient,
              lastEvent, scenario, pauseMark,
              savedCallback, intervalEffect, hostIntervals, props, invoked, stopped,
              intervalLog, synth, isRealTimeEnabled, predictionResult, predictionLog,
              debounceProps, debouncedValue, debounceEffect, hostTimeouts, debounceLog,
              storage, lsHook, lsEvent,
              dashboard, trainingProgress, isTraining, notification, trainingHandles,
              trainingLog>>

----------------------------------------------------------------------------
(* Bounds of the model *)

MaxOffset   == 306  \* ticks are explored while offset < MaxOffset
MaxResets   == 2    \* consecutive Reset clicks are counted up to MaxResets
MaxPausedTicks == 3 \* consecutive ticks while Paused are counted up to MaxPausedTicks
MaxSkipped  == 2    \* redraws skipped for want of a drawing surface are counted up to MaxSkipped
MaxLength   == 12   \* generateECGData is called with lengths 0 .. MaxLength, or with none
NoisePeriod == 2    \* Math.random() draws repeat with this period
RandomGrid  == 3    \* Math.random() is one of 0/RandomGrid .. (RandomGrid-1)/RandomGrid
NCallbacks  == 2    \* the distinct callbacks a caller of useInterval passes
MaxInvoked  == 3    \* interval callbacks are logged up to MaxInvoked invocations
MaxIdle     == 100  \* the time elapsed since useInterval went inactive is counted up to MaxIdle ms
MaxDelayChanges == 2 \* changes of a delay to another delay are counted up to MaxDelayChanges
MaxEdits    == 3    \* the input of useDebounce changes at most MaxEdits times
NValues     == 3    \* the distinct values a caller of useDebounce passes

(* Program constants *)

DefaultLength    == 500  \* generateECGData(length = 500)
MaxVisiblePoints == 200  \* Math.min(data.length, 200)
OffsetStep       == 2    \* setOffset(o => o + 2)
RedrawDelay      == 50   \* useInterval(..., 50)
PredictionDelay  == 2000 \* useInterval(..., isRealTimeEnabled ? 2000 : null)
SearchDelay      == 300  \* useDebounce(searchQuery, 300)
NPatients        == 4    \* the entries of PATIENT_CASES
TrainingDelay    == 100  \* setInterval(..., 100) of startTraining
ProgressStep     == 2    \* return prev + 2
ProgressTarget   == 100  \* if (prev >= 100)
NotificationDelay == 3000 \* setTimeout(() => setShowNotification(false), 3000)

----------------------------------------------------------------------------
(* JavaScript values *)

\* an optional value (null / undefined, or a value) is the empty set or a singleton
None      == {}
Some(v)   == {v}
TheOne(s) == CHOOSE v \in s : TRUE

\* a JS number that may be NaN
NaN        == [nan |-> TRUE,  v |-> 0]
Num(n)     == [nan |-> FALSE, v |-> n]

\* a % b for an integer a >= 0 and an integer b >= 0: NaN when b is 0
JsMod(a, b) == IF b = 0 THEN NaN ELSE Num(a % b)

\* a + i where a may be NaN
JsAdd(a, i) == IF a.nan THEN NaN ELSE Num(a.v + i)

Min(a, b) == IF a <= b THEN a ELSE b

\* data[k]: undefined (None) when k is NaN or not an index of the array
JsIndex(arr, k) ==
  IF ~k.nan /\ k.v >= 0 /\ k.v < Len(arr) THEN Some(arr[k.v + 1]) ELSE None

(* Variables of the dashboard that the renderer, the hooks' callers and the *)
(* synthesizer leave alone, and their values where the dashboard is absent  *)

predictionVars == <<isRealTimeEnabled, predictionResult, predictionLog>>
debounceVars   == <<debounceProps, debouncedValue, debounceEffect, hostTimeouts, debounceLog>>
storageVars    == <<storage, lsHook, lsEvent>>
trainingVars   == <<dashboard, trainingProgress, isTraining, notification, trainingHandles,
                    trainingLog>>
dashVars       == <<predictionVars, debounceVars, storageVars, trainingVars>>

\* JSON values: null, a boolean, a string (a sequence of characters) or an
\* array of JSON values
JNull       == [t |-> "null",   b |-> FALSE, s |-> <<>>, items |-> <<>>]
JBool(b)    == [t |-> "bool",   b |-> b,     s |-> <<>>, items |-> <<>>]
JStr(s)     == [t |-> "string", b |-> FALSE, s |-> s,    items |-> <<>>]
JArr(items) == [t |-> "array",  b |-> FALSE, s |-> <<>>, items |-> items]

NoDebounceLog == [stable |-> 0, edits |-> 0, fires |-> 0, superseded |-> 0]
NoPredictionLog == [enabledFor |-> 0, ever |-> FALSE]
NoPrediction == /\ isRealTimeEnabled = FALSE /\ predictionResult = None
                /\ predictionLog = NoPredictionLog
NoStorage    == /\ storage = [throws |-> FALSE, item |-> None]
                /\ lsHook = [mounted |-> FALSE, initialValue |-> JNull,
                             storedValue |-> JNull, threw |-> FALSE]
                /\ lsEvent = "none"
NoTrainingLog == [event |-> "none", runs |-> 0, ticks |-> 0, notified |-> 0]
NoNotification == [message |-> "", show |-> FALSE]
NoTraining   == /\ dashboard = [mounted |-> FALSE, instance |-> 0]
                /\ trainingProgress = 0
                /\ isTraining = FALSE
                /\ notification = NoNotification
                /\ trainingHandles = {}
                /\ trainingLog = NoTrainingLog
NoDebounce   == /\ debounceProps = [mounted |-> FALSE, value |-> 0, delay |-> 0]
                /\ debouncedValue = 0
                /\ debounceEffect = None
                /\ hostTimeouts = {}
                /\ debounceLog = NoDebounceLog
NoDashboard  == NoPrediction /\ NoDebounce /\ NoStorage /\ NoTraining

----------------------------------------------------------------------------
(* generateECGData *)

\* the draws of Math.random(), one per sample, as a repeating pattern
RandomPatterns == [0 .. NoisePeriod - 1 -> 0 .. RandomGrid - 1]

MathRandom(rnd, i) == rnd[i % NoisePeriod]

\* one sample: the sum of sinusoids at t = i / 100 plus (Math.random() - 0.5) * 0.1;
\* the sample is kept as the pair that determines it
Sample(i, r) == [t100 |-> i, rnd |-> r]

\* mutant: the array is one element short
ArrayFrom_OneShort(length, f) == [k \in 1 .. length - 1 |-> f[k - 1]]

\* Array.from({ length }, (_, i) => f(i)) for an integer length >= 0
ArrayFrom(length, f) == [k \in 1 .. length |-> f[k - 1]]

\* (length: number = 500): an omitted argument takes the default
LengthArg(arg) == IF arg = None THEN DefaultLength ELSE TheOne(arg)

generateECGData(length, rnd) ==
  ArrayFrom(length, [i \in Nat |-> Sample(i, MathRandom(rnd, i))])

----------------------------------------------------------------------------
(* The host's timers: setInterval / clearInterval *)

\* setInterval(cb, delay): the host hands out an id not in use; the interval
\* first fires delay ms from now
NextId(host) == CHOOSE n \in 1 .. Cardinality(host) + 1 : \A t \in host : t.id # n

SetInterval(host, delay) ==
  host \cup {[id |-> NextId(host), delay |-> delay, due |-> delay]}

ClearInterval(host, id) == {t \in host : t.id # id}

\* dt ms pass
Advance(host, dt) == {[t EXCEPT !.due = @ - dt] : t \in host}

\* the interval t has fired and is due again after its delay
Rearm(host, t) == (host \ {t}) \cup {[t EXCEPT !.due = t.delay]}

\* the host after the time to t's next firing has passed and t has fired
Fired(host, t) == Rearm(Advance(host, t.due), [t EXCEPT !.due = 0])

(* useInterval *)

\* mutant: the effect returns no cleanup that clears the interval
RunCleanup_Leaks(effect, host) == host

\* the cleanup returned by the last run of the [delay] effect, if any
RunCleanup(effect, host) ==
  IF effect = None \/ TheOne(effect).cleanup = None THEN host
  ELSE ClearInterval(host, TheOne(TheOne(effect).cleanup))

\* mutant: no test of delay !== null; setInterval(cb, null) fires as soon as the
\* host allows, 1 ms
IntervalEffect_NoNullTest(delay, host) ==
  [effect |-> Some([delay |-> delay, cleanup |-> Some(NextId(host))]),
   host   |-> SetInterval(host, IF delay = None THEN 1 ELSE TheOne(delay))]

\* the [delay] effect body
IntervalEffect(delay, host) ==
  IF delay # None
  THEN [effect |-> Some([delay |-> delay, cleanup |-> Some(NextId(host))]),
        host   |-> SetInterval(host, TheOne(delay))]
  ELSE [effect |-> Some([delay |-> delay, cleanup |-> None]),
        host   |-> host]

\* whether React re-runs the [delay] effect: on mount, or when delay changed
DelayChanged(delay, effect) == effect = None \/ TheOne(effect).delay # delay

\* mutant: savedCallback.current is set on mount only
useInterval_StaleCallback(callback, delay, saved, effect, host) ==
  LET cleaned == IF DelayChanged(delay, effect) THEN RunCleanup(effect, host) ELSE host
      run == IF DelayChanged(delay, effect)
             THEN IntervalEffect(delay, cleaned)
             ELSE [effect |-> effect, host |-> host]
  IN  [savedCallback |-> IF saved = None THEN Some(callback) ELSE saved,
       effect |-> run.effect, host |-> run.host, hosts |-> <<cleaned, run.host>>]

\* mutant: the new interval is registered before the old one is cleared
useInterval_RegistersFirst(callback, delay, saved, effect, host) ==
  LET run == IF DelayChanged(delay, effect)
             THEN IntervalEffect(delay, host)
             ELSE [effect |-> effect, host |-> host]
      cleaned == IF DelayChanged(delay, effect) THEN RunCleanup(effect, run.host) ELSE host
  IN  [savedCallback |-> Some(callback), effect |-> run.effect, host |-> cleaned,
       hosts |-> <<run.host, cleaned>>]

\* the two effects of useInterval(callback, delay) after a render; saved is
\* savedCallback.current before it. When the [delay] effect re-runs, React runs
\* the previous run's cleanup first; hosts lists the host's intervals after the
\* cleanup and after the registration
useInterval(callback, delay, saved, effect, host) ==
  LET cleaned == IF DelayChanged(delay, effect) THEN RunCleanup(effect, host) ELSE host
      run == IF DelayChanged(delay, effect)
             THEN IntervalEffect(delay, cleaned)
             ELSE [effect |-> effect, host |-> host]
  IN  [savedCallback |-> Some(callback), effect |-> run.effect, host |-> run.host,
       hosts |-> <<cleaned, run.host>>]

\* unmount: the effect's cleanup runs
useIntervalUnmount(effect, host) ==
  [effect |-> None, host |-> RunCleanup(effect, host)]

----------------------------------------------------------------------------
(* ECGVisualizer *)

\* the interval callback of one render, closed over that render's isPlaying
TickCallback(playing) == [isPlaying |-> playing]

visiblePoints(d) == Min(Len(d), MaxVisiblePoints)

\* mutant: the start index follows the offset whether playing or not
startIdx_WhilePaused(d, playing, off) == JsMod(off, Len(d) - visiblePoints(d))

\* mutant: the start index is the raw offset, never wrapped
startIdx_NoWrap(d, playing, off) == IF playing THEN Num(off) ELSE Num(0)

startIdx(d, playing, off) ==
  IF playing THEN JsMod(off, Len(d) - visiblePoints(d)) ELSE Num(0)

\* the redraw effect: the start index and the samples plotted, in order
Redraw(d, playing, off) ==
  [startIdx |-> startIdx(d, playing, off),
   points   |-> [i \in 1 .. visiblePoints(d) |->
                   JsIndex(d, JsAdd(startIdx(d, playing, off), i - 1))]]

\* the signals a caller may pass as the data prop
DataLengths    == {0, 1, 200, 201, 203, DefaultLength}
FlatPattern    == [i \in 0 .. NoisePeriod - 1 |-> 0]
SpikePattern   == [i \in 0 .. NoisePeriod - 1 |-> IF i = 0 THEN RandomGrid - 1 ELSE 0]
Signals        == {generateECGData(n, FlatPattern) : n \in DataLengths}
                    \cup {generateECGData(DefaultLength, SpikePattern)}

\* mutant: the callback advances the offset whether playing or not
TickOffset_Always(callback, off) == off + OffsetStep

\* mutant: the callback advances by one sample per tick
TickOffset_ByOne(callback, off) == IF callback.isPlaying THEN off + 1 ELSE off

\* the body of the interval callback: if (isPlaying) setOffset(o => o + 2)
TickOffset(callback, off) ==
  IF callback.isPlaying THEN off + OffsetStep ELSE off

\* mutant: Reset also stops playback
ResetState_Stops(playing, off) == [isPlaying |-> FALSE, offset |-> 0]

\* mutant: Reset leaves the offset where it is
ResetState_KeepsOffset(playing, off) == [isPlaying |-> playing, offset |-> off]

\* the state after the Reset button's handler: setOffset(0), nothing else
ResetState(playing, off) == [isPlaying |-> playing, offset |-> 0]

\* mutant: the play/pause button always starts playback
ToggleIsPlaying_Plays(playing) == TRUE

\* the play/pause button's handler: setIsPlaying(!isPlaying)
ToggleIsPlaying(playing) == ~playing

(* The drawing surface: canvasRef.current and canvas.getContext('2d') *)

SurfaceStates == {"ready", "no-canvas", "no-context"}
Ready         == [state |-> "ready", skipped |-> 0, recovered |-> FALSE, threw |-> FALSE]

\* mutant: the effect draws without testing the context, and ctx.clearRect throws
RedrawEffect_NoContextTest(sf, cv, d, playing, off) ==
  IF sf.state = "no-canvas" THEN [canvas |-> cv, threw |-> FALSE]
  ELSE IF sf.state = "no-context" THEN [canvas |-> cv, threw |-> TRUE]
  ELSE [canvas |-> Redraw(d, playing, off), threw |-> FALSE]

\* the body of the redraw effect; cv is what the surface shows before it
RedrawEffect(sf, cv, d, playing, off) ==
  IF sf.state = "no-canvas" THEN [canvas |-> cv, threw |-> FALSE]
  ELSE IF sf.state = "no-context" THEN [canvas |-> cv, threw |-> FALSE]
  ELSE [canvas |-> Redraw(d, playing, off), threw |-> FALSE]

\* the surface's record after a render whose redraw effect ran or did not run
SurfaceAfter(sf, ran, threw) ==
  IF ~ran THEN sf
  ELSE IF sf.state = "ready"
       THEN [sf EXCEPT !.recovered = (sf.skipped > 0)]
       ELSE [sf EXCEPT !.skipped = Min(@ + 1, MaxSkipped), !.threw = threw]

\* mutant: the redraw scrolls by rotating the data array in place while playing
SamplesAfterRedraw_Rotates(d, playing, off) ==
  IF playing /\ Len(d) > 0 THEN Append(Tail(d), Head(d)) ELSE d

\* the data array after the redraw effect: the effect only reads data[startIdx + i]
SamplesAfterRedraw(d, playing, off) == d

\* PATIENT_CASES as seen after a render: the data prop is the selected entry's
\* ecgPattern itself (data={selectedPatient.ecgPattern}), not a copy
SharedWith(cases, selected, d) ==
  IF selected = None THEN cases ELSE [cases EXCEPT ![TheOne(selected)] = d]

\* one render of ECGVisualizer followed by its effects; the redraw effect runs
\* after the first render and whenever data, offset or isPlaying changed
Render(d, playing, off, saved, host) ==
  LET hook == useInterval(TickCallback(playing), Some(RedrawDelay),
                          saved, intervalEffect, host)
      ran  == ~mounted \/ <<d, playing, off>> # <<data, isPlaying, offset>>
      draw == RedrawEffect(surface, canvas, d, playing, off)
  IN  /\ data' = IF ran THEN SamplesAfterRedraw(d, playing, off) ELSE d
      /\ isPlaying' = playing
      /\ offset' = off
      /\ canvas' = IF ran THEN draw.canvas ELSE canvas
      /\ surface' = SurfaceAfter(surface, ran, draw.threw)
      /\ patientCases' = SharedWith(patientCases, selectedPatient', data')
      /\ savedCallback' = hook.savedCallback
      /\ intervalEffect' = hook.effect
      /\ hostIntervals' = hook.host

NoCanvas == [startIdx |-> Num(0), points |-> <<>>]

(* History variables: they record what happened and decide nothing *)

hookUserVars  == <<props, invoked, stopped, intervalLog>>
NoIntervalLog == [peak |-> 0, changes |-> 0]
NoHookUser    == /\ props = [mounted |-> FALSE, callback |-> 0, delay |-> None]
                 /\ invoked = <<>>
                 /\ stopped = [ms |-> 0, calls |-> 0]
                 /\ intervalLog = NoIntervalLog

Event(kind)   == [kind |-> kind, n |-> 1]
VoidScenario  == [phase |-> "void", ticks |-> 0, shown |-> {}]
\* the indices of the samples on the drawing surface
ShownIndices(c) ==
  {TheOne(c.points[i]).t100 : i \in {j \in 1 .. Len(c.points) : c.points[j] # None}}
\* a mark left by a pause is dropped by the first event after the resumed tick
KeepMark(mark) ==
  IF mark # None /\ TheOne(mark).phase = "ticked" THEN None ELSE mark

Mount(d) ==
  /\ ~mounted
  /\ mounted' = TRUE
  /\ lastEvent' = Event("mount")
  /\ scenario' = VoidScenario
  /\ pauseMark' = None
  /\ selectedPatient' = selectedPatient
  /\ Render(d, FALSE, 0, None, hostIntervals)
  /\ UNCHANGED <<hookUserVars, synth, dashVars>>

Unmount ==
  /\ mounted
  /\ mounted' = FALSE
  /\ LET hook == useIntervalUnmount(intervalEffect, hostIntervals)
     IN  /\ intervalEffect' = hook.effect
         /\ hostIntervals' = hook.host
  /\ savedCallback' = None
  /\ canvas' = NoCanvas
  /\ UNCHANGED <<surface, patientCases, selectedPatient>>
  /\ data' = <<>>
  /\ isPlaying' = FALSE
  /\ offset' = 0
  /\ lastEvent' = Event("unmount")
  /\ scenario' = VoidScenario
  /\ pauseMark' = None
  /\ UNCHANGED <<hookUserVars, synth, dashVars>>

\* the parent passes a new data prop
SetData(d) ==
  /\ mounted
  /\ d # data
  /\ mounted' = mounted
  /\ lastEvent' = Event("data")
  /\ scenario' = VoidScenario
  /\ pauseMark' = KeepMark(pauseMark)
  /\ selectedPatient' = selectedPatient
  /\ Render(d, isPlaying, offset, savedCallback, hostIntervals)
  /\ UNCHANGED <<hookUserVars, synth, dashVars>>

\* onClick={() => setIsPlaying(!isPlaying)}
TogglePlay ==
  /\ mounted
  /\ mounted' = mounted
  /\ lastEvent' = Event("toggle")
  /\ pauseMark' = IF isPlaying
                  THEN Some([offset |-> offset, phase |-> "paused"])
                  ELSE IF pauseMark # None /\ TheOne(pauseMark).phase = "paused"
                       THEN Some([TheOne(pauseMark) EXCEPT !.phase = "resumed"])
                       ELSE None
  /\ selectedPatient' = selectedPatient
  /\ Render(data, ToggleIsPlaying(isPlaying), offset, savedCallback, hostIntervals)
  /\ scenario' = IF scenario.phase = "initial"
                 THEN [phase |-> "playing", ticks |-> 0, shown |-> ShownIndices(canvas')]
                 ELSE VoidScenario
  /\ UNCHANGED <<hookUserVars, synth, dashVars>>

\* onClick={() => setOffset(0)}
Reset ==
  /\ mounted
  /\ mounted' = mounted
  /\ lastEvent' = [kind |-> "reset",
                   n    |-> IF lastEvent.kind = "reset"
                            THEN Min(lastEvent.n + 1, MaxResets) ELSE 1]
  /\ scenario' = VoidScenario
  /\ pauseMark' = None
  /\ selectedPatient' = selectedPatient
  /\ LET after == ResetState(isPlaying, offset)
     IN  Render(data, after.isPlaying, after.offset, savedCallback, hostIntervals)
  /\ UNCHANGED <<hookUserVars, synth, dashVars>>

\* the host fires the registered interval: savedCallback.current?.()
Tick(t) ==
  /\ t \in hostIntervals
  /\ offset < MaxOffset
  /\ mounted' = mounted
  /\ selectedPatient' = selectedPatient
  /\ lastEvent' = [kind |-> "tick",
                   n    |-> IF lastEvent.kind = "tick" /\ ~isPlaying
                            THEN Min(lastEvent.n + 1, MaxPausedTicks) ELSE 1]
  /\ LET off == IF savedCallback = None THEN offset
                ELSE TickOffset(TheOne(savedCallback), offset)
     IN  /\ pauseMark' = IF pauseMark # None /\ TheOne(pauseMark).phase = "resumed"
                         THEN Some([TheOne(pauseMark) EXCEPT !.phase = "ticked"])
                         ELSE KeepMark(pauseMark)
         /\ Render(data, isPlaying, off, savedCallback, Fired(hostIntervals, t))
         /\ scenario' = IF scenario.phase = "playing" /\ isPlaying
                        THEN [scenario EXCEPT !.ticks = @ + 1,
                                              !.shown = @ \cup ShownIndices(canvas')]
                        ELSE scenario
  /\ UNCHANGED <<hookUserVars, synth, dashVars>>

Init ==
  /\ mounted = TRUE
  /\ data \in Signals
  /\ isPlaying = FALSE
  /\ offset = 0
  /\ canvas = Redraw(data, FALSE, 0)
  /\ surface = Ready
  /\ patientCases = <<>>
  /\ selectedPatient = None
  /\ lastEvent = Event("mount")
  /\ scenario = [phase |-> "initial", ticks |-> 0, shown |-> {}]
  /\ pauseMark = None
  /\ NoHookUser
  /\ synth = None
  /\ NoDashboard
  /\ LET hook == useInterval(TickCallback(FALSE), Some(RedrawDelay), None, None, {})
     IN  /\ savedCallback = hook.savedCallback
         /\ intervalEffect = hook.effect
         /\ hostIntervals = hook.host

Next ==
  \/ \E d \in Signals : Mount(d)
  \/ Unmount
  \/ \E d \in Signals : SetData(d)
  \/ TogglePlay
  \/ Reset
  \/ \E t \in hostIntervals : Tick(t)

Spec == Init /\ [][Next]_vars

----------------------------------------------------------------------------
(* A component that calls useInterval(callback, delay) with the callback and *)
(* the delay its parent passes, as ECGLVSDProjectGenerator and ECGVisualizer *)
(* do; the callback itself changes no state of the component.               *)

vizVars == <<mounted, data, isPlaying, offset, canvas, surface, patientCases, selectedPatient,
             lastEvent, scenario, pauseMark>>

NoVisualizer ==
  /\ mounted = FALSE
  /\ data = <<>>
  /\ isPlaying = FALSE
  /\ offset = 0
  /\ canvas = NoCanvas
  /\ surface = Ready
  /\ patientCases = <<>>
  /\ selectedPatient = None
  /\ lastEvent = Event("unmount")
  /\ scenario = VoidScenario
  /\ pauseMark = None

Callbacks  == 1 .. NCallbacks
DelayProps == {None, Some(RedrawDelay), Some(PredictionDelay)}
TimeSteps  == {RedrawDelay \div 2, RedrawDelay, PredictionDelay \div 2}

\* useInterval keeps no interval: the component is unmounted or its delay is null
Inactive(p) == ~p.mounted \/ p.delay = None

NotStopped == [ms |-> 0, calls |-> 0]

Max(a, b) == IF a >= b THEN a ELSE b

\* the log after a render's effects: hosts are the host's intervals at each
\* instant of the effects, changed tells a delay replaced by another delay
Logged(log, hosts, changed) ==
  [peak    |-> Max(log.peak, Max(Cardinality(hosts[1]), Cardinality(hosts[2]))),
   changes |-> IF changed THEN Min(log.changes + 1, MaxDelayChanges) ELSE log.changes]

HookMount(cb, d) ==
  /\ ~props.mounted
  /\ props' = [mounted |-> TRUE, callback |-> cb, delay |-> d]
  /\ LET hook == useInterval(cb, d, None, None, hostIntervals)
     IN  /\ savedCallback' = hook.savedCallback
         /\ intervalEffect' = hook.effect
         /\ hostIntervals' = hook.host
         /\ intervalLog' = Logged(intervalLog, hook.hosts, FALSE)
  /\ stopped' = NotStopped
  /\ UNCHANGED invoked
  /\ UNCHANGED <<vizVars, synth, dashVars>>

\* the parent re-renders the component with a new callback, a new delay, or both
HookRerender(cb, d) ==
  /\ props.mounted
  /\ <<cb, d>> # <<props.callback, props.delay>>
  /\ props' = [mounted |-> TRUE, callback |-> cb, delay |-> d]
  /\ LET hook == useInterval(cb, d, savedCallback, intervalEffect, hostIntervals)
     IN  /\ savedCallback' = hook.savedCallback
         /\ intervalEffect' = hook.effect
         /\ hostIntervals' = hook.host
         /\ intervalLog' = Logged(intervalLog, hook.hosts,
                                  d # None /\ props.delay # None /\ d # props.delay)
  /\ stopped' = IF d = None /\ props.delay = None THEN stopped ELSE NotStopped
  /\ UNCHANGED invoked
  /\ UNCHANGED <<vizVars, synth, dashVars>>

HookUnmount ==
  /\ props.mounted
  /\ props' = [props EXCEPT !.mounted = FALSE]
  /\ LET hook == useIntervalUnmount(intervalEffect, hostIntervals)
     IN  /\ intervalEffect' = hook.effect
         /\ hostIntervals' = hook.host
  /\ savedCallback' = None
  /\ stopped' = IF props.delay = None THEN stopped ELSE NotStopped
  /\ UNCHANGED <<invoked, intervalLog>>
  /\ UNCHANGED <<vizVars, synth, dashVars>>

\* dt ms pass during which no interval is due
Elapse(dt) ==
  /\ dt > 0
  /\ \A t \in hostIntervals : t.due >= dt
  /\ hostIntervals' = Advance(hostIntervals, dt)
  /\ stopped' = IF Inactive(props)
                THEN [stopped EXCEPT !.ms = Min(@ + dt, MaxIdle)]
                ELSE stopped
  /\ UNCHANGED <<props, invoked, savedCallback, intervalEffect, intervalLog>>
  /\ UNCHANGED <<vizVars, synth, dashVars>>

\* the host runs the due interval's function: () => savedCallback.current?.()
HookFire(t) ==
  /\ t \in hostIntervals
  /\ t.due = 0
  /\ Len(invoked) < MaxInvoked
  /\ invoked' = IF savedCallback = None THEN invoked
                ELSE Append(invoked, TheOne(savedCallback))
  /\ hostIntervals' = Rearm(hostIntervals, t)
  /\ stopped' = IF Inactive(props) /\ savedCallback # None
                THEN [stopped EXCEPT !.calls = @ + 1]
                ELSE stopped
  /\ UNCHANGED <<props, savedCallback, intervalEffect, intervalLog>>
  /\ UNCHANGED <<vizVars, synth, dashVars>>

InitInterval ==
  /\ NoVisualizer
  /\ props \in [mounted : {TRUE}, callback : Callbacks, delay : DelayProps]
  /\ invoked = <<>>
  /\ stopped = NotStopped
  /\ synth = None
  /\ NoDashboard
  /\ LET hook == useInterval(props.callback, props.delay, None, None, {})
     IN  /\ savedCallback = hook.savedCallback
         /\ intervalEffect = hook.effect
         /\ hostIntervals = hook.host
         /\ intervalLog = Logged(NoIntervalLog, hook.hosts, FALSE)

NextInterval ==
  \/ \E cb \in Callbacks, d \in DelayProps : HookMount(cb, d)
  \/ \E cb \in Callbacks, d \in DelayProps : HookRerender(cb, d)
  \/ HookUnmount
  \/ \E dt \in TimeSteps \cup {t.due : t \in hostIntervals} : Elapse(dt)
  \/ \E t \in hostIntervals : HookFire(t)

SpecInterval == InitInterval /\ [][NextInterval]_vars

----------------------------------------------------------------------------
(* Calls of generateECGData *)

LengthArgs == {None} \cup {Some(n) : n \in 0 .. MaxLength}

Generate(arg, rnd) ==
  /\ synth' = Some([arg |-> arg, samples |-> generateECGData(LengthArg(arg), rnd)])
  /\ UNCHANGED <<vizVars, hookUserVars, savedCallback, intervalEffect, hostIntervals, dashVars>>

InitSynth ==
  /\ NoVisualizer
  /\ NoHookUser
  /\ savedCallback = None
  /\ intervalEffect = None
  /\ hostIntervals = {}
  /\ synth = None
  /\ NoDashboard

NextSynth == \E arg \in LengthArgs, rnd \in RandomPatterns : Generate(arg, rnd)

SpecSynth == InitSynth /\ [][NextSynth]_vars

----------------------------------------------------------------------------
(* The claims about ECGVisualizer, checked under Spec *)

WrapModulus(d) == Len(d) - visiblePoints(d)

\* C1 as stated: the stored offset always lies in [0, signal length - visible
\* window length); stated for the 500-sample signals the dashboard passes, for
\* which that range is [0, 300).
C1_StoredOffsetWraps ==
  mounted /\ Len(data) = DefaultLength =>
    0 <= offset /\ offset < WrapModulus(data)

\* C1 as amended: for a signal longer than the visible window, the start index
\* of every redraw (offset mod (signal length - visible window length) while
\* Playing, 0 while Paused) lies in [0, signal length - visible window length);
\* the stored offset is a non-negative multiple of the per-tick advance and is
\* not wrapped.
C1_StartIdxWraps ==
  mounted /\ Len(data) > MaxVisiblePoints =>
    /\ ~canvas.startIdx.nan
    /\ 0 <= canvas.startIdx.v /\ canvas.startIdx.v < WrapModulus(data)
    /\ isPlaying => canvas.startIdx.v = offset % WrapModulus(data)
    /\ offset >= 0 /\ offset % OffsetStep = 0

\* playback of the 500-sample signal has gone past the wrap point
C1_Witness ==
  /\ mounted /\ isPlaying /\ Len(data) = DefaultLength
  /\ offset >= WrapModulus(data)
  /\ canvas.startIdx.v < offset

\* C2: for every signal, signals no longer than the visible window included,
\* the start index of every redraw while Playing is an integer with
\* 0 <= start <= signal length - visible window length.
C2_StartIdxInBounds ==
  mounted /\ isPlaying =>
    /\ ~canvas.startIdx.nan
    /\ 0 <= canvas.startIdx.v /\ canvas.startIdx.v <= WrapModulus(data)

\* C3: after Play, Pause, Play the offset is the one reached at the pause: it is
\* kept while paused (ticks included) and by the resuming toggle, and the first
\* tick after resuming advances from it by the per-tick advance.
C3_ResumeFromPausedOffset ==
  pauseMark # None =>
    LET mark == TheOne(pauseMark)
    IN  /\ mark.phase = "paused"  => ~isPlaying /\ offset = mark.offset
        /\ mark.phase = "resumed" => isPlaying /\ offset = mark.offset
        /\ mark.phase = "ticked"  => isPlaying /\ offset = mark.offset + OffsetStep

\* paused at a non-zero offset, resumed, and ticked once
C3_Witness ==
  /\ pauseMark # None
  /\ TheOne(pauseMark).phase = "ticked"
  /\ TheOne(pauseMark).offset > 0
  /\ lastEvent.kind = "tick"

\* C4: Reset is enabled in Paused and in Playing; it sets offset to 0 and leaves
\* the Playing/Paused flag as it was.
C4_ResetKeepsPlaying ==
  /\ [](mounted => ENABLED Reset)
  /\ [][lastEvent'.kind = "reset" =>
         offset' = 0 /\ isPlaying' = isPlaying /\ mounted']_vars

\* a Reset has just acted while Playing
C4_Witness ==
  lastEvent.kind = "reset" /\ isPlaying /\ offset = 0 /\ Len(data) = DefaultLength

\* C8 as stated: with the 500-sample signal, after Play and k uninterrupted
\* ticks from the initial state the offset is (2 * k) mod 300.
C8_OffsetIsTicksModulo ==
  scenario.phase = "playing" /\ Len(data) = DefaultLength =>
    offset = (OffsetStep * scenario.ticks) % (DefaultLength - MaxVisiblePoints)

\* C8 as amended: with the 500-sample signal, after Play and k uninterrupted
\* ticks from the initial state the offset is 2 * k (20 after 10 ticks), and
\* the start index drawn is (2 * k) mod 300.
C8_OffsetIsTwiceTicks ==
  scenario.phase = "playing" /\ Len(data) = DefaultLength =>
    /\ offset = OffsetStep * scenario.ticks
    /\ canvas.startIdx
         = Num((OffsetStep * scenario.ticks) % (DefaultLength - MaxVisiblePoints))

\* ten uninterrupted ticks after Play
C8_Witness ==
  /\ scenario.phase = "playing" /\ scenario.ticks = 10
  /\ Len(data) = DefaultLength /\ offset = 20

\* C10: once a Reset has acted in Paused the offset is 0, and a further Reset
\* leaves the offset at 0, the state Paused and the drawn window (start index 0,
\* same samples) as they were.
C10_ResetIdempotentWhilePaused ==
  [][ /\ lastEvent'.kind = "reset" /\ ~isPlaying' => 
           offset' = 0 /\ canvas'.startIdx = Num(0)
      /\ lastEvent.kind = "reset" /\ ~isPlaying /\ lastEvent'.kind = "reset" =>
           offset' = offset /\ ~isPlaying' /\ canvas' = canvas /\ data' = data ]_vars

\* two Resets in a row while Paused, the window showing samples
C10_Witness ==
  /\ lastEvent.kind = "reset" /\ lastEvent.n >= 2 /\ ~isPlaying
  /\ Len(canvas.points) = MaxVisiblePoints

----------------------------------------------------------------------------
(* The claims about useInterval, checked under SpecInterval *)

\* C5: while a mounted caller passes delay = null, no host interval is
\* registered and the callback is not invoked, however much time elapses.
C5_NullDelayNeverInvokes ==
  props.mounted /\ props.delay = None =>
    hostIntervals = {} /\ stopped.calls = 0

\* delay is null, more than one redraw interval has elapsed, nothing was invoked
C5_Witness ==
  /\ props.mounted /\ props.delay = None
  /\ stopped.ms >= RedrawDelay
  /\ invoked = <<>>

\* C6: a tick invokes the callback of the latest render, never a replaced one,
\* and replacing the callback with the delay unchanged leaves the registered
\* interval as it is (same id, same time to its next firing).
C6_InvokesNewestCallback ==
  [][ /\ Len(invoked') > Len(invoked) =>
           invoked'[Len(invoked')] = props.callback
      /\ (/\ props.mounted /\ props'.mounted
          /\ props'.delay = props.delay
          /\ props'.callback # props.callback) =>
           hostIntervals' = hostIntervals ]_vars

\* two successive ticks of one interval invoked two different callbacks
C6_Witness ==
  /\ Len(invoked) >= 2
  /\ invoked[Len(invoked)] # invoked[Len(invoked) - 1]
  /\ props.mounted /\ props.delay = Some(RedrawDelay)
  /\ \E t \in hostIntervals : t.id = 1 /\ t.due = t.delay

\* C7: on unmount and when delay goes from non-null to null the host interval
\* is cleared, and the callback is not invoked while the component stays
\* unmounted or its delay stays null.
C7_CancelsOnUnmountOrNull ==
  [][ /\ ~Inactive(props) /\ Inactive(props') => hostIntervals' = {}
      /\ Inactive(props) /\ Inactive(props') =>
           invoked' = invoked /\ hostIntervals' = {} ]_vars

\* the interval had been invoking, was cancelled, and time has passed since
C7_Witness ==
  /\ Inactive(props)
  /\ Len(invoked) > 0
  /\ stopped.ms >= RedrawDelay /\ stopped.calls = 0

----------------------------------------------------------------------------
(* The claims about generateECGData, checked under SpecSynth *)

C11_PausedTicksKeepOffset ==
  /\ [][lastEvent'.kind = "tick" /\ ~isPlaying =>
          offset' = offset /\ ~isPlaying' /\ canvas' = canvas]_vars
  /\ [](lastEvent.kind = "tick" /\ ~isPlaying /\ pauseMark # None =>
          offset = TheOne(pauseMark).offset)

\* several ticks have fired since playback was paused at a non-zero offset
C11_Witness ==
  /\ mounted /\ ~isPlaying
  /\ lastEvent.kind = "tick" /\ lastEvent.n = MaxPausedTicks
  /\ pauseMark # None /\ TheOne(pauseMark).phase = "paused"
  /\ offset > 0 /\ offset = TheOne(pauseMark).offset

\* C12 as stated: the toggle from Playing to Paused deregisters the renderer's
\* interval, so none is registered while Paused after a pause, and none is
\* registered after unmount.
C12_PauseDeregistersTimer ==
  /\ mounted /\ ~isPlaying /\ pauseMark # None /\ TheOne(pauseMark).phase = "paused" =>
       hostIntervals = {}
  /\ ~mounted => hostIntervals = {}

\* C12 as amended: pausing does not deregister the renderer's interval: while
\* the renderer is mounted, Playing or Paused, exactly one interval of 50 ms is
\* registered and its tick can fire; unmounting deregisters it, so no interval
\* is registered while the renderer is unmounted.
C12_TimerLivesUntilUnmount ==
  /\ [](mounted => /\ Cardinality(hostIntervals) = 1
                   /\ \A t \in hostIntervals : t.delay = RedrawDelay
                   /\ intervalEffect # None)
  /\ [](mounted /\ ~isPlaying /\ offset < MaxOffset => ENABLED (\E t \in hostIntervals : Tick(t)))
  /\ [](~mounted => hostIntervals = {} /\ intervalEffect = None)
  /\ [][lastEvent'.kind = "unmount" => hostIntervals # {} /\ hostIntervals' = {}]_vars

\* playback of the 500-sample signal was paused and the interval has ticked since
C12_Witness ==
  /\ mounted /\ ~isPlaying /\ Len(data) = DefaultLength
  /\ pauseMark # None /\ TheOne(pauseMark).phase = "paused"
  /\ lastEvent.kind = "tick" /\ lastEvent.n >= 2
  /\ \E t \in hostIntervals : t.delay = RedrawDelay

\* C13: ECGVisualizer starts Paused with offset 0 (initially and at every
\* mount), the play/pause toggle flips the flag, and no other step of a mounted
\* renderer (tick, Reset, change of the data prop, with their redraws) changes it.
C13_FlagChangesOnlyByToggle ==
  /\ ~isPlaying /\ offset = 0
  /\ [][ /\ lastEvent'.kind = "mount" => ~isPlaying' /\ offset' = 0
         /\ lastEvent'.kind = "toggle" => isPlaying' = ~isPlaying
         /\ mounted /\ lastEvent'.kind \in {"tick", "reset", "data"} =>
              isPlaying' = isPlaying
         /\ mounted /\ mounted' /\ isPlaying' # isPlaying => lastEvent'.kind = "toggle" ]_vars

\* the data prop changed during playback that had advanced, and playback goes on
C13_Witness ==
  /\ mounted /\ isPlaying /\ lastEvent.kind = "data" /\ offset > 0
  /\ Len(data) = DefaultLength

\* C14: every redraw plots min(signal length, 200) samples, from start index
\* offset mod (signal length - number plotted) when Playing and from 0 when
\* Paused, whatever the stored offset; the samples plotted are the consecutive
\* ones from the start index. For a signal no longer than the window the
\* modulus is 0 and JavaScript's % yields NaN (C2's case).
C14_WindowOfEveryRedraw ==
  mounted =>
    LET visible == IF Len(data) < MaxVisiblePoints THEN Len(data) ELSE MaxVisiblePoints
        modulus == Len(data) - visible
    IN  /\ Len(canvas.points) = visible
        /\ ~isPlaying => canvas.startIdx = Num(0)
        /\ isPlaying /\ modulus # 0 => canvas.startIdx = Num(offset % modulus)
        /\ isPlaying /\ modulus = 0 => canvas.startIdx = NaN
        /\ ~canvas.startIdx.nan =>
             \A i \in 1 .. visible :
               canvas.points[i] =
                 IF canvas.startIdx.v + i <= Len(data)
                 THEN Some(data[canvas.startIdx.v + i]) ELSE None

\* a paused renderer whose stored offset is not 0 shows the first 200 samples
C14_Witness ==
  /\ mounted /\ ~isPlaying /\ offset > 0
  /\ Len(data) = DefaultLength
  /\ canvas.startIdx = Num(0) /\ Len(canvas.points) = MaxVisiblePoints

\* C18 as stated: a tick is idempotent: a tick that follows a tick leaves the
\* playback state (isPlaying, offset) and the drawn window as the first left them.
C18_TickIdempotent ==
  [][lastEvent.kind = "tick" /\ lastEvent'.kind = "tick" =>
       isPlaying' = isPlaying /\ offset' = offset /\ canvas' = canvas]_vars

\* C18 as amended: a tick is idempotent only while Paused, where a second tick
\* leaves isPlaying, offset and the drawn window as the first left them; while
\* Playing every tick adds 2 to the offset, so a second tick leaves it 2 above
\* the first, and for the 500-sample signal the drawn window starts elsewhere.
C18_TickIdempotentOnlyPaused ==
  [][lastEvent.kind = "tick" /\ lastEvent'.kind = "tick" =>
       /\ ~isPlaying => ~isPlaying' /\ offset' = offset /\ canvas' = canvas
       /\ isPlaying  => /\ isPlaying' /\ offset' = offset + OffsetStep
                        /\ Len(data) = DefaultLength =>
                             canvas'.startIdx # canvas.startIdx ]_vars

\* two ticks in a row during playback from the initial state
C18_Witness ==
  /\ mounted /\ isPlaying /\ lastEvent.kind = "tick"
  /\ scenario.phase = "playing" /\ scenario.ticks = 2
  /\ offset = 2 * OffsetStep

----------------------------------------------------------------------------
(* ECGVisualizer on a host whose canvas element or 2-D context may be       *)
(* missing: Spec's handlers, and the host taking the surface away or        *)
(* giving it back.                                                          *)

MaxCanvasOffset == 8  \* in SpecCanvas ticks are explored while offset < MaxCanvasOffset

CanvasSignals == {generateECGData(DefaultLength, FlatPattern),
                  generateECGData(DefaultLength, SpikePattern)}

\* canvasRef.current or getContext('2d') starts or stops returning null
SurfaceChange(s) ==
  /\ s # surface.state
  /\ surface' = [state     |-> s,
                 skipped   |-> IF surface.state = "ready" THEN 0 ELSE surface.skipped,
                 recovered |-> FALSE,
                 threw     |-> surface.threw]
  /\ lastEvent' = Event("surface")
  /\ UNCHANGED <<mounted, data, isPlaying, offset, canvas, patientCases, selectedPatient,
                 scenario, pauseMark, savedCallback, intervalEffect, hostIntervals>>
  /\ UNCHANGED <<hookUserVars, synth, dashVars>>

InitCanvas ==
  /\ mounted = TRUE
  /\ data \in CanvasSignals
  /\ isPlaying = FALSE
  /\ offset = 0
  /\ \E s \in SurfaceStates :
       LET sf   == [Ready EXCEPT !.state = s]
           draw == RedrawEffect(sf, NoCanvas, data, FALSE, 0)
       IN  /\ canvas = draw.canvas
           /\ surface = SurfaceAfter(sf, TRUE, draw.threw)
  /\ patientCases = <<>>
  /\ selectedPatient = None
  /\ lastEvent = Event("mount")
  /\ scenario = [phase |-> "initial", ticks |-> 0, shown |-> {}]
  /\ pauseMark = None
  /\ NoHookUser
  /\ synth = None
  /\ NoDashboard
  /\ LET hook == useInterval(TickCallback(FALSE), Some(RedrawDelay), None, None, {})
     IN  /\ savedCallback = hook.savedCallback
         /\ intervalEffect = hook.effect
         /\ hostIntervals = hook.host

NextCanvas ==
  \/ \E s \in SurfaceStates : SurfaceChange(s)
  \/ \E d \in CanvasSignals : Mount(d)
  \/ Unmount
  \/ \E d \in CanvasSignals : SetData(d)
  \/ TogglePlay
  \/ Reset
  \/ \E t \in hostIntervals : offset < MaxCanvasOffset /\ Tick(t)

SpecCanvas == InitCanvas /\ [][NextCanvas]_vars

\* the window a redraw of data d at this playback state puts on the surface
Drawn(d, playing, off) == Redraw(d, playing, off)

\* C15: a redraw that finds no canvas element or no 2-D context draws nothing
\* (the surface shows what it showed) and raises no error; the step's effect on
\* isPlaying and offset is the handler's own, as with a surface; and the test
\* is made again by every later redraw, which draws the current window as soon
\* as the surface is there. A render whose data, offset and isPlaying are
\* unchanged runs no redraw.
C15_MissingSurfaceSkipsRedraw ==
  /\ [](~surface.threw)
  /\ [][ /\ mounted' /\ surface.state # "ready" => canvas' = canvas
         /\ surface'.state # surface.state =>
              isPlaying' = isPlaying /\ offset' = offset /\ data' = data
         /\ lastEvent'.kind = "toggle" => isPlaying' = ~isPlaying /\ offset' = offset
         /\ lastEvent'.kind = "reset"  => isPlaying' = isPlaying /\ offset' = 0
         /\ lastEvent'.kind = "tick"   =>
              /\ isPlaying' = isPlaying
              /\ offset' = IF isPlaying THEN offset + OffsetStep ELSE offset
         /\ lastEvent'.kind = "data"   => isPlaying' = isPlaying /\ offset' = offset
         /\ /\ mounted' /\ surface.state = "ready" /\ surface'.state = "ready"
            /\ ~mounted \/ <<data', isPlaying', offset'>> # <<data, isPlaying, offset>>
            => canvas' = Drawn(data', isPlaying', offset')
         /\ /\ mounted /\ mounted'
            /\ <<data', isPlaying', offset'>> = <<data, isPlaying, offset>>
            => canvas' = canvas ]_vars

\* redraws were skipped while the surface was missing, playback went on, and the
\* first redraw after the surface came back has drawn the current window
C15_Witness ==
  /\ mounted /\ isPlaying /\ offset > 0
  /\ surface.state = "ready" /\ surface.skipped = MaxSkipped /\ surface.recovered
  /\ lastEvent.kind = "tick"
  /\ canvas = Drawn(data, isPlaying, offset)
  /\ canvas.startIdx = Num(offset)

----------------------------------------------------------------------------
(* The dashboard's ECG tab: PATIENT_CASES, the selected patient, and the    *)
(* ECGVisualizer that is given the selected entry's ecgPattern.             *)

MaxPatientOffset == 6  \* in SpecPatients ticks are explored while offset < MaxPatientOffset

\* outcomes of the four generateECGData() calls made when the module loads
PatientCaseSets ==
  {[i \in 1 .. NPatients |->
      generateECGData(DefaultLength, IF i % 2 = k THEN FlatPattern ELSE SpikePattern)]
     : k \in 0 .. 1}

\* onClick={() => setSelectedPatient(patient)}
SelectPatient(p) ==
  /\ mounted
  /\ selectedPatient # Some(p)
  /\ mounted' = mounted
  /\ lastEvent' = Event("select")
  /\ scenario' = VoidScenario
  /\ pauseMark' = KeepMark(pauseMark)
  /\ selectedPatient' = Some(p)
  /\ Render(patientCases[p], isPlaying, offset, savedCallback, hostIntervals)
  /\ UNCHANGED <<hookUserVars, synth, dashVars>>

\* the dashboard opens on the overview tab, with the first patient selected
InitPatients ==
  /\ mounted = FALSE
  /\ data = <<>>
  /\ isPlaying = FALSE
  /\ offset = 0
  /\ canvas = NoCanvas
  /\ surface = Ready
  /\ patientCases \in PatientCaseSets
  /\ selectedPatient = Some(1)
  /\ lastEvent = Event("unmount")
  /\ scenario = VoidScenario
  /\ pauseMark = None
  /\ NoHookUser
  /\ savedCallback = None
  /\ intervalEffect = None
  /\ hostIntervals = {}
  /\ synth = None
  /\ NoDashboard

NextPatients ==
  \/ \E d \in {patientCases[TheOne(selectedPatient)]} : Mount(d)
  \/ Unmount
  \/ \E p \in 1 .. NPatients : SelectPatient(p)
  \/ TogglePlay
  \/ Reset
  \/ \E t \in hostIntervals : offset < MaxPatientOffset /\ Tick(t)

SpecPatients == InitPatients /\ [][NextPatients]_vars

\* C17: no step of the dashboard's ECG tab (opening or leaving the tab,
\* selecting a patient, and the renderer's toggle, Reset, tick and redraws)
\* changes any sample of any PATIENT_CASES entry: every ecgPattern is the same
\* 500-sample sequence in every reachable state, and the renderer's data prop
\* is the selected entry's.
C17_PatternsNeverWritten ==
  /\ [][patientCases' = patientCases]_vars
  /\ [](\A i \in 1 .. NPatients : Len(patientCases[i]) = DefaultLength)
  /\ [](mounted => data = patientCases[TheOne(selectedPatient)])

\* another patient was selected and its signal has been scrolling
C17_Witness ==
  /\ mounted /\ isPlaying /\ offset > 0 /\ lastEvent.kind = "tick"
  /\ selectedPatient = Some(NPatients)
  /\ data = patientCases[NPatients]
  /\ patientCases[1] # patientCases[NPatients]

----------------------------------------------------------------------------
(* More claims about useInterval, checked under SpecInterval *)

\* C20: a useInterval instance has at most one host interval registered at any
\* instant, the instants between a cleanup and the next registration included:
\* when the delay changes from d1 to d2 the d1 interval is cleared before the d2
\* interval is registered; a mounted instance with a delay has exactly the
\* interval of that delay, and after unmount none is registered.
C20_AtMostOneInterval ==
  /\ Cardinality(hostIntervals) <= 1
  /\ intervalLog.peak <= 1
  /\ ~props.mounted => hostIntervals = {}
  /\ props.mounted /\ props.delay # None =>
       \E t \in hostIntervals : hostIntervals = {t} /\ t.delay = TheOne(props.delay)

\* the delay has been changed from one value to another more than once
C20_Witness ==
  /\ props.mounted /\ props.delay = Some(PredictionDelay)
  /\ intervalLog.changes = MaxDelayChanges /\ intervalLog.peak = 1
  /\ Cardinality(hostIntervals) = 1

----------------------------------------------------------------------------
(* The real-time prediction simulator of ECGLVSDProjectGenerator: its two   *)
(* state variables and its useInterval(callback, isRealTimeEnabled ? 2000 : *)
(* null). Math.random() is a rational k / RandomDen with 0 <= k < RandomDen. *)

RandomDen == 1000  \* Math.random() is drawn from multiples of 1 / RandomDen

\* the draws explored: both ends of [0, 1) as sampled, the lower end's
\* neighbour, a quarter and the middle
Draws == {0, 1, RandomDen \div 4, RandomDen \div 2, RandomDen - 1}

(* Numbers are IEEE doubles. A value is kept as a numerator over            *)
(* HundredthsDen = 100 * RandomDen; doubles in [0.5, 1) are RandomDen apart *)
(* in number, as Math.random()'s draws are, and twice as far apart in each   *)
(* higher binade; values below 0.5 are taken as exact.                      *)

HundredthsDen == 100 * RandomDen

RECURSIVE Ulp(_)
\* the distance between neighbouring doubles at the value n / HundredthsDen
Ulp(n) == IF n < HundredthsDen THEN 100 ELSE 2 * Ulp(n \div 2)

\* the multiple of step nearest to n
Nearest(n, step) == ((2 * n + step) \div (2 * step)) * step

\* the double nearest to n / HundredthsDen
Double(n) == IF 2 * n < HundredthsDen THEN n ELSE Nearest(n, Ulp(n))

\* the literal h / 100 as the program holds it
Literal(h) == Double(h * RandomDen)

\* mutant: Math.round in place of Math.floor
Prediction_Rounds(r1, r2) ==
  [lvef       |-> (2 * Double(100 * 40 * r1) + HundredthsDen) \div (2 * HundredthsDen) + 20,
   confidence |-> [num |-> Double(85 * RandomDen + 14 * r2), den |-> HundredthsDen]]

\* { lvef: Math.floor(Math.random() * 40) + 20, confidence: 0.85 + Math.random() * 0.14 }
\* for the draws r1 / RandomDen and r2 / RandomDen; confidence is the fraction num / den
Prediction(r1, r2) ==
  [lvef       |-> Double(100 * 40 * r1) \div HundredthsDen + 20,
   confidence |-> [num |-> Double(85 * RandomDen + 14 * r2), den |-> HundredthsDen]]

\* the interval callback of one render, closed over that render's isRealTimeEnabled
PredictionCallback(enabled) == [isRealTimeEnabled |-> enabled]

\* the body of the callback: if (isRealTimeEnabled) setPredictionResult({...})
PredictionAfterTick(callback, prev, r1, r2) ==
  IF callback.isRealTimeEnabled THEN Some(Prediction(r1, r2)) ELSE prev

\* mutant: the interval runs whether real-time prediction is enabled or not
PredictionDelayProp_Always(enabled) == Some(PredictionDelay)

\* isRealTimeEnabled ? 2000 : null
PredictionDelayProp(enabled) == IF enabled THEN Some(PredictionDelay) ELSE None

\* one render of ECGLVSDProjectGenerator followed by the effects of its useInterval
DashRender(enabled, prediction, saved, host) ==
  LET hook == useInterval(PredictionCallback(enabled), PredictionDelayProp(enabled),
                          saved, intervalEffect, host)
  IN  /\ isRealTimeEnabled' = enabled
      /\ predictionResult' = prediction
      /\ savedCallback' = hook.savedCallback
      /\ intervalEffect' = hook.effect
      /\ hostIntervals' = hook.host

\* onClick={() => setIsRealTimeEnabled(!isRealTimeEnabled)}
ToggleRealTime ==
  /\ DashRender(~isRealTimeEnabled, predictionResult, savedCallback, hostIntervals)
  /\ predictionLog' = [enabledFor |-> 0, ever |-> predictionLog.ever \/ ~isRealTimeEnabled]
  /\ UNCHANGED <<vizVars, hookUserVars, synth, debounceVars, storageVars, trainingVars>>

\* dt ms pass during which the prediction interval is not due
PredictionElapse(dt) ==
  /\ dt > 0
  /\ hostIntervals # {}
  /\ \A t \in hostIntervals : t.due >= dt
  /\ hostIntervals' = Advance(hostIntervals, dt)
  /\ predictionLog' = IF isRealTimeEnabled
                      THEN [predictionLog EXCEPT !.enabledFor = Min(@ + dt, PredictionDelay)]
                      ELSE predictionLog
  /\ UNCHANGED <<savedCallback, intervalEffect, isRealTimeEnabled, predictionResult>>
  /\ UNCHANGED <<vizVars, hookUserVars, synth, debounceVars, storageVars, trainingVars>>

\* the host runs the due interval's function, whose Math.random() calls return
\* r1 / RandomDen and r2 / RandomDen
PredictionTick(t, r1, r2) ==
  /\ t \in hostIntervals
  /\ t.due = 0
  /\ Len(invoked) < MaxInvoked
  /\ invoked' = IF savedCallback = None THEN invoked
                ELSE Append(invoked, TheOne(savedCallback))
  /\ LET after == IF savedCallback = None THEN predictionResult
                  ELSE PredictionAfterTick(TheOne(savedCallback), predictionResult, r1, r2)
     IN  DashRender(isRealTimeEnabled, after, savedCallback, Rearm(hostIntervals, t))
  /\ predictionLog' = predictionLog
  /\ UNCHANGED <<props, stopped, intervalLog>>
  /\ UNCHANGED <<vizVars, synth, debounceVars, storageVars, trainingVars>>

InitPrediction ==
  /\ NoVisualizer
  /\ NoHookUser
  /\ synth = None
  /\ NoDashboard
  /\ LET hook == useInterval(PredictionCallback(FALSE), PredictionDelayProp(FALSE),
                             None, None, {})
     IN  /\ savedCallback = hook.savedCallback
         /\ intervalEffect = hook.effect
         /\ hostIntervals = hook.host

NextPrediction ==
  \/ ToggleRealTime
  \/ \E dt \in {PredictionDelay \div 2} \cup {t.due : t \in hostIntervals} : PredictionElapse(dt)
  \/ \E t \in hostIntervals, r1 \in Draws, r2 \in Draws : PredictionTick(t, r1, r2)

SpecPrediction == InitPrediction /\ [][NextPrediction]_vars

\* lvef is an integer with 20 <= lvef <= 59
LvefInBounds(p) == p.lvef \in 20 .. 59

\* C16 as stated: every stored prediction has an integer lvef in 20 .. 59 and a
\* confidence with 0.85 <= confidence < 0.99.
C16_ConfidenceBelowUpperEnd ==
  predictionResult # None =>
    LET p == TheOne(predictionResult)
    IN  /\ LvefInBounds(p)
        /\ Literal(85) <= p.confidence.num
        /\ p.confidence.num < Literal(99)

\* C16 as amended: while real-time prediction is enabled an interval of 2000 ms
\* is registered; each of its ticks fires while enabled and leaves exactly one
\* stored prediction, the new one, whose lvef is an integer in 20 .. 59 and
\* whose confidence satisfies 0.85 <= confidence <= 0.99, the upper end being
\* reached when the draw is within rounding distance of 1; no stored
\* prediction is ever outside these bounds.
C16_PredictionsInBounds ==
  /\ [](predictionResult # None =>
          LET p == TheOne(predictionResult)
          IN  /\ Cardinality(predictionResult) = 1
              /\ LvefInBounds(p)
              /\ Literal(85) <= p.confidence.num
              /\ p.confidence.num <= Literal(99))
  /\ [](isRealTimeEnabled =>
          \E t \in hostIntervals : hostIntervals = {t} /\ t.delay = PredictionDelay)
  /\ [][Len(invoked') > Len(invoked) =>
          /\ isRealTimeEnabled /\ isRealTimeEnabled'
          /\ \E t \in hostIntervals : t.due = 0
          /\ predictionResult' # None
          /\ LvefInBounds(TheOne(predictionResult'))]_vars

\* a prediction has been replaced, by the largest values the draws produce
C16_Witness ==
  /\ isRealTimeEnabled /\ Len(invoked) >= 2
  /\ predictionResult # None
  /\ TheOne(predictionResult).lvef = 59
  /\ TheOne(predictionResult).confidence.num = Literal(99)

----------------------------------------------------------------------------
(* A component that calls useDebounce(value, delay), as                     *)
(* ECGLVSDProjectGenerator does with (searchQuery, 300); the host's          *)
(* setTimeout / clearTimeout.                                               *)

\* setTimeout(() => setDebouncedValue(value), delay): fires once, delay ms from now
SetTimeout(host, delay, v) ==
  host \cup {[id |-> NextId(host), due |-> delay, value |-> v]}

\* clearTimeout(handler): nothing happens if the timeout has fired already
ClearTimeout(host, id) == {t \in host : t.id # id}

\* mutant: the effect returns no cleanup, so a superseded timeout stays pending
DebounceEffect_NoCleanup(value, delay, effect, host) ==
  [effect |-> Some(NextId(host)), host |-> SetTimeout(host, delay, value)]

\* a run of the [value, delay] effect: the previous run's cleanup, then the body;
\* effect is the handler the previous run registered, if any
DebounceEffect(value, delay, effect, host) ==
  LET cleared == IF effect = None THEN host ELSE ClearTimeout(host, TheOne(effect))
  IN  [effect |-> Some(NextId(cleared)), host |-> SetTimeout(cleared, delay, value)]

DebounceValues == 1 .. NValues
DebounceDelays == {SearchDelay, 2 * SearchDelay}
StableCap      == 2 * SearchDelay   \* the time the input has been unchanged is counted up to the longest delay
DebounceSteps  == {SearchDelay \div 3}

\* the caller re-renders with another value, another delay, or both
DebounceInput(v, d) ==
  /\ debounceProps.mounted
  /\ <<v, d>> # <<debounceProps.value, debounceProps.delay>>
  /\ debounceLog.edits < MaxEdits
  /\ debounceProps' = [mounted |-> TRUE, value |-> v, delay |-> d]
  /\ LET run == DebounceEffect(v, d, debounceEffect, hostTimeouts)
     IN  /\ debounceEffect' = run.effect
         /\ hostTimeouts' = run.host
  /\ debounceLog' = [debounceLog EXCEPT !.stable = 0, !.edits = @ + 1,
                       !.superseded = IF hostTimeouts # {} THEN @ + 1 ELSE @]
  /\ UNCHANGED debouncedValue
  /\ UNCHANGED <<vizVars, hookUserVars, savedCallback, intervalEffect, hostIntervals,
                 synth, predictionVars, storageVars, trainingVars>>

\* dt ms pass during which no timeout is due
DebounceElapse(dt) ==
  /\ dt > 0
  /\ \A t \in hostTimeouts : t.due >= dt
  /\ hostTimeouts' = Advance(hostTimeouts, dt)
  /\ debounceLog' = [debounceLog EXCEPT !.stable = Min(@ + dt, StableCap)]
  /\ UNCHANGED <<debounceProps, debouncedValue, debounceEffect>>
  /\ UNCHANGED <<vizVars, hookUserVars, savedCallback, intervalEffect, hostIntervals,
                 synth, predictionVars, storageVars, trainingVars>>

\* the host runs a due timeout's function: setDebouncedValue(value); the
\* re-render leaves value and delay as they are, so the effect does not re-run
DebounceFire(t) ==
  /\ t \in hostTimeouts
  /\ t.due = 0
  /\ debouncedValue' = t.value
  /\ hostTimeouts' = hostTimeouts \ {t}
  /\ debounceLog' = [debounceLog EXCEPT !.fires = @ + 1]
  /\ UNCHANGED <<debounceProps, debounceEffect>>
  /\ UNCHANGED <<vizVars, hookUserVars, savedCallback, intervalEffect, hostIntervals,
                 synth, predictionVars, storageVars, trainingVars>>

\* the first render: useState(value), then the effect
InitDebounce ==
  /\ NoVisualizer
  /\ NoHookUser
  /\ savedCallback = None
  /\ intervalEffect = None
  /\ hostIntervals = {}
  /\ synth = None
  /\ NoPrediction
  /\ NoStorage
  /\ NoTraining
  /\ debounceProps \in [mounted : {TRUE}, value : DebounceValues, delay : DebounceDelays]
  /\ debouncedValue = debounceProps.value
  /\ LET run == DebounceEffect(debounceProps.value, debounceProps.delay, None, {})
     IN  /\ debounceEffect = run.effect
         /\ hostTimeouts = run.host
  /\ debounceLog = NoDebounceLog

\* time passing and the host running what is due
DebounceTime ==
  \/ \E dt \in DebounceSteps \cup {t.due : t \in hostTimeouts} : DebounceElapse(dt)
  \/ \E t \in hostTimeouts : DebounceFire(t)

NextDebounce ==
  \/ \E v \in DebounceValues, d \in DebounceDelays : DebounceInput(v, d)
  \/ DebounceTime

SpecDebounce == InitDebounce /\ [][NextDebounce]_vars

\* time does not stop, and the host runs a timeout that is due
SpecDebounceFair == SpecDebounce /\ WF_vars(DebounceTime)

\* C19: useDebounce emits an input only after it has stayed unchanged for delay
\* ms: a change of value or delay cancels the pending update, so at most one
\* timeout is pending and it carries the current input; every emission is of
\* the current input, after it was unchanged for at least the current delay, so
\* a superseded input is never emitted; and once the input stays as it is the
\* debounced value eventually equals it and stays equal.
C19_DebounceEmitsStableInput ==
  /\ [](/\ Cardinality(hostTimeouts) <= 1
        /\ \A t \in hostTimeouts : t.value = debounceProps.value /\ t.due <= debounceProps.delay
        /\ debouncedValue # debounceProps.value => hostTimeouts # {})
  /\ [][debounceLog'.fires > debounceLog.fires \/ debouncedValue' # debouncedValue =>
          /\ debouncedValue' = debounceProps.value
          /\ debounceProps' = debounceProps
          /\ debounceLog.stable >= debounceProps.delay]_vars
  /\ [][debounceLog'.edits > debounceLog.edits =>
          debouncedValue' = debouncedValue /\ Cardinality(hostTimeouts') = 1]_vars
  /\ <>[](debouncedValue = debounceProps.value /\ hostTimeouts = {})

\* an input was superseded before its delay elapsed, and the input that
\* replaced it has been emitted after its own delay
C19_Witness ==
  /\ debounceLog.superseded >= 2 /\ debounceLog.fires = 1
  /\ hostTimeouts = {}
  /\ debouncedValue = debounceProps.value
  /\ debounceLog.stable >= debounceProps.delay

----------------------------------------------------------------------------
(* useLocalStorage: one caller of the hook and the localStorage entry of    *)
(* its key. Texts are sequences of characters over letters, the space and   *)
(* the JSON punctuation [ ] , " (no digits, braces, signs or backslashes),   *)
(* so that the JSON values a text can denote are null, booleans, strings    *)
(* and arrays of these.                                                     *)

MaxItems == 2  \* the longest array the caller stores

Quote == "\""

\* JSON.stringify of a string without characters that need escaping
QuoteString(s) == <<Quote>> \o s \o <<Quote>>

RECURSIVE JsonStringify(_)
RECURSIVE JoinItems(_)
\* the elements of an array, each stringified, separated by commas
JoinItems(items) ==
  IF items = <<>> THEN <<>>
  ELSE IF Len(items) = 1 THEN JsonStringify(items[1])
  ELSE JsonStringify(items[1]) \o <<",">> \o JoinItems(Tail(items))

\* JSON.stringify(value)
JsonStringify(v) ==
  CASE v.t = "null"   -> <<"n", "u", "l", "l">>
    [] v.t = "bool"   -> IF v.b THEN <<"t", "r", "u", "e">> ELSE <<"f", "a", "l", "s", "e">>
    [] v.t = "string" -> QuoteString(v.s)
    [] v.t = "array"  -> <<"[">> \o JoinItems(v.items) \o <<"]">>

\* the outcome of parsing: a value and the position after it, or a SyntaxError
Parsed(v, next) == [ok |-> TRUE, value |-> v, next |-> next]
SyntaxError     == [ok |-> FALSE, value |-> JNull, next |-> 0]

RECURSIVE SkipSpace(_, _)
\* the first position from i on that holds no white space
SkipSpace(text, i) ==
  IF i <= Len(text) /\ text[i] = " " THEN SkipSpace(text, i + 1) ELSE i

\* the word stands in text at position i
HasAt(text, i, word) ==
  /\ i + Len(word) - 1 <= Len(text)
  /\ SubSeq(text, i, i + Len(word) - 1) = word

RECURSIVE ClosingQuote(_, _)
\* the position of the first quote from i on, or 0
ClosingQuote(text, i) ==
  IF i > Len(text) THEN 0
  ELSE IF text[i] = Quote THEN i
  ELSE ClosingQuote(text, i + 1)

RECURSIVE ParseValue(_, _)
RECURSIVE ParseElements(_, _, _)
\* the elements of an array from position i on, after the elements acc:
\* value, white space, then a comma and more elements, or the closing bracket
ParseElements(text, i, acc) ==
  LET e == ParseValue(text, i)
      j == SkipSpace(text, e.next)
  IN  IF ~e.ok \/ j > Len(text) THEN SyntaxError
      ELSE IF text[j] = "]" THEN Parsed(JArr(Append(acc, e.value)), j + 1)
      ELSE IF text[j] = "," THEN ParseElements(text, j + 1, Append(acc, e.value))
      ELSE SyntaxError

\* the JSON value that starts at the first position from i on that is not
\* white space
ParseValue(text, i) ==
  LET j == SkipSpace(text, i)
  IN  IF j > Len(text) THEN SyntaxError
      ELSE IF HasAt(text, j, <<"n", "u", "l", "l">>) THEN Parsed(JNull, j + 4)
      ELSE IF HasAt(text, j, <<"t", "r", "u", "e">>) THEN Parsed(JBool(TRUE), j + 4)
      ELSE IF HasAt(text, j, <<"f", "a", "l", "s", "e">>) THEN Parsed(JBool(FALSE), j + 5)
      ELSE IF text[j] = Quote
        THEN LET q == ClosingQuote(text, j + 1)
             IN  IF q = 0 THEN SyntaxError
                 ELSE Parsed(JStr(SubSeq(text, j + 1, q - 1)), q + 1)
      ELSE IF text[j] = "["
        THEN LET k == SkipSpace(text, j + 1)
             IN  IF k <= Len(text) /\ text[k] = "]" THEN Parsed(JArr(<<>>), k + 1)
                 ELSE ParseElements(text, j + 1, <<>>)
      ELSE SyntaxError

\* JSON.parse(text): one value with nothing but white space around it
JsonParse(text) ==
  LET p == ParseValue(text, 1)
  IN  IF p.ok /\ SkipSpace(text, p.next) = Len(text) + 1 THEN p ELSE SyntaxError

\* window.localStorage.getItem(key): the entry, null when there is none; the
\* access throws when storage is denied or there is no window
GetItem(store) == [threw |-> store.throws, item |-> store.item]

\* mutant: the initialiser without its try / catch
ReadInitial_NoCatch(store, initialValue) ==
  LET got == GetItem(store)
  IN  IF got.threw THEN [value |-> initialValue, threw |-> TRUE]
      ELSE IF got.item = None \/ got.item = Some(<<>>)
        THEN [value |-> initialValue, threw |-> FALSE]
      ELSE LET p == JsonParse(TheOne(got.item))
           IN  IF p.ok THEN [value |-> p.value, threw |-> FALSE]
               ELSE [value |-> initialValue, threw |-> TRUE]

\* the initialiser of useState in useLocalStorage:
\*   try { item = getItem(key); return item ? JSON.parse(item) : initialValue }
\*   catch (error) { return initialValue }
\* value is what storedValue starts as; threw says an error reached the caller
ReadInitial(store, initialValue) ==
  LET got == GetItem(store)
  IN  IF got.threw THEN [value |-> initialValue, threw |-> FALSE]
      ELSE IF got.item = None \/ got.item = Some(<<>>)
        THEN [value |-> initialValue, threw |-> FALSE]
      ELSE LET p == JsonParse(TheOne(got.item))
           IN  [value |-> IF p.ok THEN p.value ELSE initialValue, threw |-> FALSE]

\* the feature ids toggled, as strings
FeatureIds == {<<"a">>, <<"b">>}

\* s occurs in the string text
Includes(text, s) == \E i \in 1 .. Len(text) : HasAt(text, i, s)

\* prev.includes(id) ? prev.filter(x => x !== id) : [...prev, id], with prev
\* whatever storedValue holds: null and booleans have no includes, a string
\* has includes but no filter, and spreads into its characters
ToggleFeature(prev, id) ==
  CASE prev.t = "array" ->
         [threw |-> FALSE,
          value |-> IF \E i \in 1 .. Len(prev.items) : prev.items[i] = JStr(id)
                      THEN JArr(SelectSeq(prev.items, LAMBDA x : x # JStr(id)))
                      ELSE JArr(Append(prev.items, JStr(id)))]
    [] prev.t = "string" ->
         IF Includes(prev.s, id) THEN [threw |-> TRUE, value |-> prev]
         ELSE [threw |-> FALSE,
               value |-> JArr([i \in 1 .. Len(prev.s) |-> JStr(<<prev.s[i]>>)]
                              \o <<JStr(id)>>)]
    [] OTHER -> [threw |-> TRUE, value |-> prev]

\* the arrays of at most MaxItems feature ids
FeatureArrays ==
  {JArr(items) : items \in UNION {[1 .. n -> {JStr(id) : id \in FeatureIds}] : n \in 0 .. MaxItems}}

\* the values stored under the key: null, the booleans, a string and the arrays
JsonValues == {JNull, JBool(FALSE), JBool(TRUE), JStr(<<"a">>)} \cup FeatureArrays

\* the initial values of the program's two callers: false and []
InitialValues == {JBool(FALSE), JArr(<<>>)}

\* a rendering of a value with white space around it and after every comma
RECURSIVE Spaced(_)
Spaced(text) ==
  IF text = <<>> THEN <<>>
  ELSE IF Head(text) = "," THEN <<",", " ">> \o Spaced(Tail(text))
  ELSE <<Head(text)>> \o Spaced(Tail(text))

\* the texts that denote v among the entries explored
Renderings(v) == {JsonStringify(v), <<" ">> \o Spaced(JsonStringify(v)) \o <<" ">>}

\* texts that are not JSON: the word undefined, a cut-off word, an unclosed
\* array, an unclosed string, a trailing comma, a missing comma, two values,
\* and white space alone
InvalidTexts ==
  {<<"u", "n", "d", "e", "f", "i", "n", "e", "d">>,
   <<"n", "u", "l">>,
   <<"[">>,
   <<Quote, "a">>,
   <<"[", Quote, "a", Quote, ",", "]">>,
   <<"[", Quote, "a", Quote, " ", Quote, "b", Quote, "]">>,
   <<"t", "r", "u", "e", " ", "t", "r", "u", "e">>,
   <<" ">>}

\* what another tab, the user or an earlier version may have left under the key
StoredTexts == UNION {Renderings(v) : v \in JsonValues}
               \cup InvalidTexts \cup {<<>>}

\* a component that calls useLocalStorage(key, initialValue) mounts
LsMount(initialValue) ==
  /\ ~lsHook.mounted
  /\ LET read == ReadInitial(storage, initialValue)
     IN  lsHook' = [mounted |-> TRUE, initialValue |-> initialValue,
                    storedValue |-> read.value, threw |-> read.threw]
  /\ lsEvent' = "mount"
  /\ UNCHANGED storage

LsUnmount ==
  /\ lsHook.mounted
  /\ lsHook' = [lsHook EXCEPT !.mounted = FALSE]
  /\ lsEvent' = "unmount"
  /\ UNCHANGED storage

\* setValue(value): setStoredValue(value); setItem(key, JSON.stringify(value)),
\* where setItem throws when storage is denied; the error is caught and logged
LsSetValue(value) ==
  /\ lsHook.mounted
  /\ lsHook' = [lsHook EXCEPT !.storedValue = value]
  /\ storage' = IF storage.throws THEN storage
                ELSE [storage EXCEPT !.item = Some(JsonStringify(value))]
  /\ lsEvent' = "set"

\* setValue(prev => ...) of toggleComprehensiveFeature(id): the function is
\* applied to storedValue inside the try; when it throws nothing is stored
LsToggleFeature(id) ==
  /\ lsHook.mounted
  /\ LET toggled == ToggleFeature(lsHook.storedValue, id)
     IN  /\ Len(toggled.value.items) <= MaxItems
         /\ lsHook' = [lsHook EXCEPT !.storedValue = toggled.value]
         /\ storage' = IF toggled.threw \/ storage.throws THEN storage
                       ELSE [storage EXCEPT !.item = Some(JsonStringify(toggled.value))]
  /\ lsEvent' = "toggle"

\* while no caller is mounted the entry is written or removed from outside,
\* or access to storage is denied or granted
StorageChange(store) ==
  /\ ~lsHook.mounted
  /\ store # storage
  /\ storage' = store
  /\ lsEvent' = "storage"
  /\ UNCHANGED lsHook

Stores == [throws : BOOLEAN, item : {None} \cup {Some(text) : text \in StoredTexts}]

LsIdle == UNCHANGED <<vizVars, hookUserVars, savedCallback, intervalEffect, hostIntervals,
                      synth, predictionVars, debounceVars, trainingVars>>

InitStorage ==
  /\ NoVisualizer
  /\ NoHookUser
  /\ savedCallback = None
  /\ intervalEffect = None
  /\ hostIntervals = {}
  /\ synth = None
  /\ NoPrediction
  /\ NoDebounce
  /\ NoTraining
  /\ storage \in Stores
  /\ lsHook = [mounted |-> FALSE, initialValue |-> JNull,
               storedValue |-> JNull, threw |-> FALSE]
  /\ lsEvent = "none"

NextStorage ==
  \/ \E v \in InitialValues : LsMount(v) /\ LsIdle
  \/ LsUnmount /\ LsIdle
  \/ \E v \in JsonValues : LsSetValue(v) /\ LsIdle
  \/ \E id \in FeatureIds : LsToggleFeature(id) /\ LsIdle
  \/ \E store \in Stores : StorageChange(store) /\ LsIdle

SpecStorage == InitStorage /\ [][NextStorage]_vars

\* C21: useLocalStorage initialises from the stored entry when the entry
\* exists, is not empty and is JSON text, and then storedValue is the value the
\* text denotes; when the entry is missing or empty, is not JSON text, or
\* access to storage throws, storedValue is initialValue; in every case no
\* error reaches the caller.
C21_InitialValueOnFailure ==
  lsEvent = "mount" =>
    /\ ~lsHook.threw
    /\ \A v \in JsonValues :
         ~storage.throws /\ storage.item \in {Some(text) : text \in Renderings(v)}
           => lsHook.storedValue = v
    /\ (\/ storage.throws
        \/ storage.item \in {None, Some(<<>>)}
        \/ storage.item \in {Some(text) : text \in InvalidTexts})
         => lsHook.storedValue = lsHook.initialValue

\* the hook has been initialised while the entry was an array with a trailing
\* comma, and started as its initialValue
C21_Witness ==
  /\ lsEvent = "mount"
  /\ ~storage.throws
  /\ storage.item = Some(<<"[", Quote, "a", Quote, ",", "]">>)
  /\ lsHook.initialValue = JBool(FALSE)
  /\ lsHook.storedValue = JBool(FALSE)

\* the hook has been initialised from an array written with white space
C21_WitnessParsed ==
  /\ lsEvent = "mount"
  /\ ~storage.throws
  /\ storage.item = Some(<<" ", "[", Quote, "a", Quote, ",", " ", Quote, "b", Quote, "]", " ">>)
  /\ lsHook.initialValue = JArr(<<>>)
  /\ lsHook.storedValue = JArr(<<JStr(<<"a">>), JStr(<<"b">>)>>)

\* the hook has been initialised while access to storage throws
C21_WitnessDenied ==
  /\ lsEvent = "mount"
  /\ storage.throws
  /\ storage.item = Some(JsonStringify(JBool(TRUE)))
  /\ lsHook.storedValue = JArr(<<>>)

----------------------------------------------------------------------------
(* More claims about the samples ECGVisualizer plots, checked under Spec *)

\* C22: every sample index read by a redraw lies inside the signal: for every
\* signal and every reachable (isPlaying, offset), each index startIdx + i with
\* 0 <= i < min(signal length, 200) is an integer with
\* 0 <= startIdx + i < signal length, and the sample plotted there is defined.
C22_SampleIndicesInSignal ==
  mounted =>
    \A i \in 1 .. Len(canvas.points) :
      /\ ~canvas.startIdx.nan
      /\ 0 <= canvas.startIdx.v + (i - 1)
      /\ canvas.startIdx.v + (i - 1) < Len(data)
      /\ canvas.points[i] # None

\* C23: during uninterrupted playback of a signal with more than 200 samples,
\* every sample index 0 .. signal length - 1 falls inside the visible window at
\* some tick of each wrap cycle of the scroll position: when the start index is
\* back at 0 after at least one tick, the windows shown since playback began
\* cover the whole signal.
C23_WrapCycleShowsWholeSignal ==
  /\ scenario.phase = "playing" /\ scenario.ticks > 0
  /\ Len(data) > MaxVisiblePoints
  /\ canvas.startIdx = Num(0)
  => scenario.shown = 0 .. Len(data) - 1

\* what a full wrap cycle of the 500-sample signal does show: every sample but
\* the last two
C23_ShownInOneCycle ==
  /\ scenario.phase = "playing" /\ scenario.ticks > 0
  /\ Len(data) = DefaultLength
  /\ canvas.startIdx = Num(0)
  => scenario.shown = 0 .. DefaultLength - 3

----------------------------------------------------------------------------
(* More claims about the real-time prediction simulator, checked under      *)
(* SpecPrediction                                                           *)

\* C24: while real-time prediction is disabled the stored prediction never
\* changes: no step that starts or ends with prediction disabled changes it (so
\* disabling keeps the last predicted value, and enabling shows nothing new),
\* it is null until prediction has been enabled for the first time, no interval
\* is registered while disabled, and the interval callback runs only when
\* prediction has been enabled for a full 2000 ms.
C24_UnchangedWhileDisabled ==
  /\ [][~isRealTimeEnabled \/ ~isRealTimeEnabled' => predictionResult' = predictionResult]_vars
  /\ [](~predictionLog.ever => predictionResult = None)
  /\ [](~isRealTimeEnabled => hostIntervals = {})
  /\ [][invoked' # invoked \/ predictionResult' # predictionResult =>
          isRealTimeEnabled /\ predictionLog.enabledFor = PredictionDelay]_vars

\* prediction has been disabled after a value was predicted, and the value is kept
C24_Witness ==
  /\ ~isRealTimeEnabled
  /\ predictionLog.ever
  /\ predictionResult # None
  /\ Len(invoked) > 0

\* prediction has been enabled again for half an interval and still shows the
\* value predicted before it was disabled
C24_WitnessReenabled ==
  /\ isRealTimeEnabled
  /\ predictionLog.enabledFor = PredictionDelay \div 2
  /\ predictionResult # None
  /\ Len(invoked) = 1

----------------------------------------------------------------------------
(* The training simulator of ECGLVSDProjectGenerator: trainingProgress,     *)
(* isTraining, the interval that startTraining registers with the host and  *)
(* the notification its last tick issues. The component may be unmounted    *)
(* and mounted again by whoever renders it; each mount is a new instance    *)
(* with fresh state. An action is one task of the event loop followed by    *)
(* the render it causes; a state updater is applied once.                   *)

MaxRuns      == 2  \* calls of startTraining explored
MaxInstances == 2  \* mounts of the component explored

\* disabled={isTraining} on the Start Training button
StartDisabled(training) == training

\* mutant: the updater tests prev > 100
TrainingUpdater_Late(prev) ==
  IF prev > ProgressTarget THEN [progress |-> ProgressTarget, done |-> TRUE]
  ELSE [progress |-> prev + ProgressStep, done |-> FALSE]

\* the updater passed to setTrainingProgress by each tick: done tells that it
\* cleared the interval, called setIsTraining(false) and showNotificationMsg
TrainingUpdater(prev) ==
  IF prev >= ProgressTarget THEN [progress |-> ProgressTarget, done |-> TRUE]
  ELSE [progress |-> prev + ProgressStep, done |-> FALSE]

\* showNotificationMsg(message): the two state setters
ShowNotificationMsg(message) == [message |-> message, show |-> TRUE]

\* the handle belongs to a call made by the instance that is mounted now
Live(h) == dashboard.mounted /\ h.instance = dashboard.instance

TrainingEvent(kind) == [trainingLog EXCEPT !.event = kind]

trainingIdle ==
  UNCHANGED <<vizVars, hookUserVars, savedCallback, intervalEffect, synth, predictionVars,
              storageVars, debounceProps, debouncedValue, debounceEffect, debounceLog>>

\* the component is rendered for the first time, or again after an unmount
DashMount ==
  /\ ~dashboard.mounted
  /\ dashboard.instance < MaxInstances
  /\ dashboard' = [mounted |-> TRUE, instance |-> dashboard.instance + 1]
  /\ trainingProgress' = 0
  /\ isTraining' = FALSE
  /\ notification' = NoNotification
  /\ trainingLog' = [TrainingEvent("mount") EXCEPT !.ticks = 0, !.notified = 0]
  /\ UNCHANGED <<trainingHandles, hostIntervals, hostTimeouts>>
  /\ trainingIdle

\* the component is removed: startTraining and showNotificationMsg register
\* no cleanup, so their interval and timeouts stay with the host
DashUnmount ==
  /\ dashboard.mounted
  /\ dashboard' = [dashboard EXCEPT !.mounted = FALSE]
  /\ trainingProgress' = 0
  /\ isTraining' = FALSE
  /\ notification' = NoNotification
  /\ trainingLog' = TrainingEvent("unmount")
  /\ UNCHANGED <<trainingHandles, hostIntervals, hostTimeouts>>
  /\ trainingIdle

\* a click on the Start Training button, which is disabled while isTraining
StartTraining ==
  /\ dashboard.mounted
  /\ ~StartDisabled(isTraining)
  /\ trainingLog.runs < MaxRuns
  /\ isTraining' = TRUE
  /\ trainingProgress' = 0
  /\ hostIntervals' = SetInterval(hostIntervals, TrainingDelay)
  /\ trainingHandles' = trainingHandles \cup
       {[id |-> NextId(hostIntervals), instance |-> dashboard.instance,
         run |-> trainingLog.runs + 1]}
  /\ trainingLog' = [TrainingEvent("start") EXCEPT !.runs = @ + 1, !.ticks = 0, !.notified = 0]
  /\ UNCHANGED <<dashboard, notification, hostTimeouts>>
  /\ trainingIdle

\* dt ms pass during which no interval and no timeout is due
TrainingElapse(dt) ==
  /\ dt > 0
  /\ \A t \in hostIntervals \cup hostTimeouts : t.due >= dt
  /\ hostIntervals' = Advance(hostIntervals, dt)
  /\ hostTimeouts' = Advance(hostTimeouts, dt)
  /\ trainingLog' = TrainingEvent("time")
  /\ UNCHANGED <<dashboard, trainingProgress, isTraining, notification, trainingHandles>>
  /\ trainingIdle

\* the host runs the function of a due training interval:
\* setTrainingProgress(prev => ...). The setter of an instance that is no
\* longer mounted changes nothing and its function is not applied.
TrainingTick(t) ==
  /\ t \in hostIntervals
  /\ t.due = 0
  /\ \E h \in trainingHandles :
       /\ h.id = t.id
       /\ IF Live(h)
          THEN LET next == TrainingUpdater(trainingProgress)
               IN  /\ trainingProgress' = next.progress
                   /\ isTraining' = IF next.done THEN FALSE ELSE isTraining
                   /\ hostIntervals' = IF next.done THEN ClearInterval(hostIntervals, h.id)
                                       ELSE Rearm(hostIntervals, t)
                   /\ trainingHandles' = IF next.done THEN trainingHandles \ {h}
                                         ELSE trainingHandles
                   /\ notification' = IF next.done
                                      THEN ShowNotificationMsg("Training completed successfully!")
                                      ELSE notification
                   /\ hostTimeouts' = IF next.done
                                      THEN SetTimeout(hostTimeouts, NotificationDelay, h.instance)
                                      ELSE hostTimeouts
                   /\ trainingLog' = IF next.done
                                     THEN [TrainingEvent("done") EXCEPT !.notified = @ + 1]
                                     ELSE [TrainingEvent("tick") EXCEPT !.ticks = @ + 1]
          ELSE /\ hostIntervals' = Rearm(hostIntervals, t)
               /\ trainingLog' = TrainingEvent("orphan")
               /\ UNCHANGED <<trainingProgress, isTraining, trainingHandles, notification,
                              hostTimeouts>>
  /\ UNCHANGED dashboard
  /\ trainingIdle

\* the host runs a due timeout of showNotificationMsg: setShowNotification(false)
HideNotification(t) ==
  /\ t \in hostTimeouts
  /\ t.due = 0
  /\ hostTimeouts' = hostTimeouts \ {t}
  /\ notification' = IF dashboard.mounted /\ t.value = dashboard.instance
                     THEN [notification EXCEPT !.show = FALSE]
                     ELSE notification
  /\ trainingLog' = TrainingEvent("hide")
  /\ UNCHANGED <<dashboard, trainingProgress, isTraining, trainingHandles, hostIntervals>>
  /\ trainingIdle

InitTraining ==
  /\ NoVisualizer
  /\ NoHookUser
  /\ savedCallback = None
  /\ intervalEffect = None
  /\ hostIntervals = {}
  /\ synth = None
  /\ NoPrediction
  /\ NoDebounce
  /\ NoStorage
  /\ dashboard = [mounted |-> TRUE, instance |-> 1]
  /\ trainingProgress = 0
  /\ isTraining = FALSE
  /\ notification = NoNotification
  /\ trainingHandles = {}
  /\ trainingLog = [NoTrainingLog EXCEPT !.event = "mount"]

\* the host's part: time passes and due timers run
TrainingTime ==
  \/ \E dt \in {t.due : t \in hostIntervals \cup hostTimeouts} : TrainingElapse(dt)
  \/ \E t \in hostIntervals : TrainingTick(t)
  \/ \E t \in hostTimeouts : HideNotification(t)

NextTraining ==
  \/ DashMount
  \/ DashUnmount
  \/ StartTraining
  \/ TrainingTime

SpecTraining == InitTraining /\ [][NextTraining]_vars

\* the host keeps running: time passes and due timers are run
SpecTrainingFair == SpecTraining /\ WF_vars(TrainingTime)

\* the interval of run r is registered with the host
Running(r) == \E h \in trainingHandles : h.run = r /\ \E t \in hostIntervals : t.id = h.id

\* C25: every training run started by startTraining terminates: its interval
\* is eventually cleared, so that no further progress ticks fire; the tick
\* that ends a run finds the progress at 100 and leaves isTraining false, and
\* the completion notification is issued exactly once per run.
C25_EveryRunTerminates ==
  /\ \A r \in 1 .. MaxRuns : Running(r) ~> ~Running(r)
  /\ [](trainingLog.notified <= 1)
  /\ [](trainingLog.event = "done" =>
          trainingProgress = ProgressTarget /\ ~isTraining /\ trainingLog.notified = 1)

\* what does hold of C25: a run ends as stated unless its component is
\* unmounted first
C25_RunsOfMountedInstanceTerminate ==
  /\ \A r \in 1 .. MaxRuns :
       Running(r) ~> (~Running(r) \/ \E h \in trainingHandles : h.run = r /\ ~Live(h))
  /\ [](trainingLog.notified <= 1)
  /\ [](trainingLog.event = "done" =>
          trainingProgress = ProgressTarget /\ ~isTraining /\ trainingLog.notified = 1)

\* trainingProgress is an even integer with 0 <= trainingProgress <= 100
ProgressInRange == trainingProgress \in 0 .. ProgressTarget /\ trainingProgress % 2 = 0

\* C26 as stated: trainingProgress is an even integer with
\* 0 <= trainingProgress <= 100 in every reachable state; during a run it never
\* decreases and grows by exactly 2 on every tick of the run's interval, and
\* while the component stays mounted only startTraining takes it back to 0.
C26_GrowsByTwoOnEveryTick ==
  /\ [](ProgressInRange)
  /\ [][isTraining /\ trainingLog'.event \in {"tick", "done"} =>
          trainingProgress' = trainingProgress + ProgressStep]_vars
  /\ [][isTraining /\ isTraining' /\ trainingLog'.event # "start" =>
          trainingProgress' >= trainingProgress]_vars
  /\ [][trainingProgress' = 0 /\ trainingProgress # 0 /\ dashboard' = dashboard =>
          trainingLog'.event = "start"]_vars

\* C26 as amended: trainingProgress is an even integer with
\* 0 <= trainingProgress <= 100 in every reachable state; during a run it is
\* twice the number of ticks so far: each tick that finds it below 100 adds
\* exactly 2, and the tick that finds it at 100 leaves it at 100 and ends the
\* run, so it never decreases during a run; it goes back to 0 only by
\* startTraining or when the component is unmounted.
C26_GrowsByTwoUntilTarget ==
  /\ [](ProgressInRange)
  /\ [](isTraining => trainingProgress = ProgressStep * trainingLog.ticks)
  /\ [][trainingLog'.event = "tick" =>
          /\ isTraining /\ isTraining'
          /\ trainingProgress < ProgressTarget
          /\ trainingProgress' = trainingProgress + ProgressStep]_vars
  /\ [][trainingLog'.event = "done" =>
          /\ isTraining /\ ~isTraining'
          /\ trainingProgress = ProgressTarget
          /\ trainingProgress' = ProgressTarget]_vars
  /\ [][isTraining /\ isTraining' /\ trainingLog'.event # "start" =>
          trainingProgress' >= trainingProgress]_vars
  /\ [][trainingProgress' < trainingProgress =>
          trainingLog'.event \in {"start", "unmount"}]_vars

\* the last run explored has ended: its last tick found the progress at 100
C26_Witness ==
  /\ trainingLog.event = "done"
  /\ trainingLog.runs = MaxRuns
  /\ trainingLog.ticks * ProgressStep = ProgressTarget
  /\ trainingProgress = ProgressTarget
  /\ ~isTraining

\* C27: at most one training interval is active at any time: startTraining is
\* triggered only while isTraining is false and no training interval is
\* registered, so two runs never advance concurrently.
C27_AtMostOneTrainingInterval ==
  /\ [](Cardinality(hostIntervals) <= 1)
  /\ [][trainingLog'.event = "start" => ~isTraining /\ hostIntervals = {}]_vars

\* what does hold of C27: the mounted instance has at most one interval of its
\* own, exactly when isTraining, and startTraining is not enabled meanwhile
C27_OneIntervalPerInstance ==
  /\ [](Cardinality({h \in trainingHandles : Live(h)}) <= 1)
  /\ [](dashboard.mounted => (isTraining <=> \E h \in trainingHandles : Live(h)))
  /\ [](\A h \in trainingHandles : \E t \in hostIntervals : t.id = h.id)
  /\ [](isTraining => ~ENABLED StartTraining)

====
